---- MODULE Spec2Model ----
(***************************************************************************)
(* chloros: a user-level cooperative threading runtime (src/chloros.cpp).  *)
(*                                                                         *)
(* Kernel threads ("execution contexts") share one vector of parked        *)
(* logical threads, thread_queue, and each has a thread-local              *)
(* current_thread.  Every operation of the runtime is translated           *)
(* statement group by statement group, so that the steps of two execution  *)
(* contexts interleave the way the kernel threads of the program do: the   *)
(* source takes queue_lock in GetThreadCount only.                         *)
(***************************************************************************)
EXTENDS Integers, Sequences, FiniteSets, TLC

\* ------------------------------------------------------------------ bounds
\* Initialize and Spawn stop creating threads when Thread::next_id reaches
\* the cap of the specification: MaxThreads with two execution contexts,
\* MaxThreadsSingle with one.
MaxThreads == 3
MaxThreadsSingle == 4

\* How many Yield(true) calls the observed "spawn, then yield repeatedly"
\* scenario is followed for.
MaxScenarioYields == 2

\* How many times one thread's destructor is followed: a thread is destroyed
\* once unless two contexts came to hold it, and a program that frees it a
\* second time is not followed to a third.
MaxFrees == 2

\* ------------------------------------------------------------- value sets
Contexts == {"A", "B"}
NoCtx == "none"

MaxTid == IF MaxThreads > MaxThreadsSingle THEN MaxThreads ELSE MaxThreadsSingle
Tid == 0 .. (MaxTid - 1)
NoThread == -1

Args == {"a1", "a2"}
ArgsMulti == {"a1"}
NoArg == "noarg"

\* The user functions handed to Spawn.
Fns == {"f_inc", "f_yield", "f_wait", "f_spawn", "f_poll"}
FnsMulti == {"f_inc", "f_yield", "f_wait"}
NoFn == "nofn"

\* Thread::State
kWaiting == "waiting"
kReady == "ready"
kRunning == "running"
kZombie == "zombie"
NoState == "nostate"

\* What a Context (the saved rsp) resumes to: the fresh frame primed by Spawn
\* ("start"), the return address of the Yield call that suspended the thread
\* (who called that Yield), or nothing yet ("unsaved").
Callers == {"user", "spawn", "wait", "entry"}
cStart == "start"
cUnsaved == "unsaved"

NoStack == [alloc |-> FALSE, arg |-> NoArg, fn |-> NoFn, ret |-> "null"]

\* ------------------------------------------------------------------ state
VARIABLES
    next_id,            \* Thread::next_id
    thread_queue,       \* the vector of parked threads, front first
    state,              \* Thread::state of every created thread
    stack,              \* Thread::stack: the three primed slots
    context,            \* Thread::context: where the saved rsp resumes
    destroyed,          \* how many times ~Thread ran on each thread
    current_thread,     \* thread_local current_thread of each context
    initial_thread_id,  \* thread_local initial_thread_id of each context
    queue_lock,         \* holder of the mutex, or NoCtx
    pc,                 \* where each kernel thread is in the code
    caller,             \* which code called the Yield a context is inside
                        \* ("user" outside Yield)
    only_ready,         \* the argument of that Yield
    next_thread,        \* Yield's local next_thread
    iter,               \* Yield's local iter: where its scan stopped (0: none)
    old_context,        \* Yield's local old_context (the thread it points into)
    new_context,        \* Yield's local new_context
    yield_ret,          \* what the Yield user code just called returned
    pos,                \* how many operations a spawned function has done
    entry,              \* the (fn, arg) pairs ThreadEntry was called with
    spawned,            \* the (fn, arg) each thread was spawned with
    hist,               \* operations done by an initial thread, while they
                        \* follow an observed scenario
    counter,            \* the shared counter f_inc increments
    count_result        \* the pair the GetThreadCount just called returned

vars == <<next_id, thread_queue, state, stack, context, destroyed,
          current_thread, initial_thread_id, queue_lock, pc, caller,
          only_ready, next_thread, iter, old_context, new_context,
          yield_ret, pos, entry, spawned, hist, counter, count_result>>

\* --------------------------------------------------------------- helpers
\* The process is gone after an ASSERT failure or a crash.
Alive == \A k \in Contexts : pc[k] \notin {"assert_fail", "crashed"}

\* The initial thread of a context has no stack of its own.
IsInitial(t) == ~stack[t].alloc

Op(name, fn, arg, b) == [op |-> name, fn |-> fn, arg |-> arg, b |-> b]

\* What each user function does before it returns, given its argument.
Body(fn, arg) ==
    CASE fn = "f_inc"   -> <<Op("inc", NoFn, NoArg, FALSE)>>
      [] fn = "f_yield" -> <<Op("yield", NoFn, NoArg, FALSE)>>
      [] fn = "f_wait"  -> <<Op("wait", NoFn, NoArg, FALSE)>>
      [] fn = "f_spawn" -> <<Op("spawn", "f_inc", arg, FALSE)>>
      [] fn = "f_poll"  -> <<Op("yield", NoFn, NoArg, TRUE),
                             Op("count", NoFn, NoArg, FALSE),
                             Op("gc", NoFn, NoArg, FALSE)>>
      [] OTHER          -> <<>>

\* The function a spawned thread is running: what ThreadEntry received.
Invocation(t) == entry[t][Len(entry[t])]
BodyOf(t) == Body(Invocation(t)[1], Invocation(t)[2])

\* The first observed scenario: Spawn(f_inc, a), Yield(true) once to
\* MaxScenarioYields + 1 times, GetThreadCount.
CounterScenario(h) ==
    /\ Len(h) >= 1
    /\ h[1] = "spawn_f_inc"
    /\ \A i \in 2 .. Len(h) :
          \/ h[i] = "yield_true" /\ i <= MaxScenarioYields + 2
          \/ h[i] = "count" /\ i = Len(h) /\ i >= 3

\* The second observed scenario: Spawn(f_yield, a) three times, a loop of
\* Yield(false) calls (MaxScenarioYields + 1 at most), GetThreadCount.
LoopScenario(h) ==
    /\ Len(h) >= 1
    /\ \A i \in 1 .. Len(h) :
          \/ h[i] = "spawn_f_yield" /\ i <= 3
          \/ h[i] = "yield_false" /\ i > 3 /\ i <= MaxScenarioYields + 4
          \/ h[i] = "count" /\ i = Len(h) /\ i >= 5

ScenarioPrefix(h) == CounterScenario(h) \/ LoopScenario(h)

OpName(o) ==
    CASE o.op = "spawn" -> "spawn_" \o o.fn
      [] o.op = "yield" -> IF o.b THEN "yield_true" ELSE "yield_false"
      [] OTHER          -> o.op

\* The history after operation o, r being what the Yield called just before
\* returned: the loop of the second scenario ends at the first Yield(false)
\* that returns false, and only GetThreadCount follows it.
Track(h, o, r) ==
    IF h = <<"off">> THEN h
    ELSE IF /\ ScenarioPrefix(Append(h, OpName(o)))
            /\ (LoopScenario(h) /\ h[Len(h)] = "yield_false" /\ r = "false")
                  => o.op = "count"
         THEN Append(h, OpName(o))
    ELSE <<"off">>

\* User code of the thread current on k is at an operation boundary and its
\* next operation is o: anything for an initial thread, the next operation of
\* its function for a spawned one.
UserAt(k, o) ==
    /\ Alive
    /\ pc[k] = "user"
    /\ LET t == current_thread[k] IN
          \/ IsInitial(t)
          \/ /\ ~IsInitial(t)
             /\ pos[t] < Len(BodyOf(t))
             /\ BodyOf(t)[pos[t] + 1] = o

\* The bookkeeping of a user operation: the function's position, the
\* initial thread's history (kept when obs), and the return values of the
\* operation before, which the caller has consumed.
NoCount == <<-1, -1>>

Advance(k, o, obs) ==
    /\ LET t == current_thread[k] IN
       IF IsInitial(t)
       THEN /\ hist' = [hist EXCEPT ![t] = IF obs THEN Track(hist[t], o, yield_ret[k])
                                              ELSE hist[t]]
            /\ pos' = pos
       ELSE /\ pos' = [pos EXCEPT ![t] = pos[t] + 1]
            /\ hist' = hist
    /\ yield_ret' = [yield_ret EXCEPT ![k] = "none"]
    /\ count_result' = [count_result EXCEPT ![k] = NoCount]

\* ------------------------------------------------- the code's pure pieces
\* A Spawn that is one slot off: the argument slot is never written.
PrimedStack_ArgSlotMissed(fn, arg) ==
    [alloc |-> TRUE, arg |-> NoArg, fn |-> fn, ret |-> "StartThread"]

\* Spawn, lines 112-116: the three slots primed at the top of the new stack.
PrimedStack(fn, arg) ==
    [alloc |-> TRUE, arg |-> arg, fn |-> fn, ret |-> "StartThread"]

\* A Spawn that appends the new thread at the back.
InsertFront_Back(q, t) == q \o <<t>>

\* Spawn, line 124: insert at the front of the vector.
InsertFront(q, t) == <<t>> \o q

\* A scan that forgets only_ready.
Eligible_IgnoresOnlyReady(st, b) == st = kWaiting \/ st = kReady

\* A scan that forgets the Waiting arm.
Eligible_ReadyOnly(st, b) == st = kReady

\* Yield, lines 138 and 142: the test the scan applies to one thread.
Eligible(st, b) == (~b /\ st = kWaiting) \/ st = kReady

\* A scan that keeps going and takes the last eligible thread.
FirstEligible_Last(q, b) ==
    LET hits == {i \in 1 .. Len(q) : Eligible(state[q[i]], b)} IN
    IF hits = {} THEN 0 ELSE CHOOSE i \in hits : \A j \in hits : i >= j

\* A scan that takes the front thread whatever its state.
FirstEligible_Front(q, b) == IF q = <<>> THEN 0 ELSE 1

\* Yield, lines 137-147: the index of the thread the scan stops at, or 0.
FirstEligible(q, b) ==
    LET hits == {i \in 1 .. Len(q) : Eligible(state[q[i]], b)} IN
    IF hits = {} THEN 0 ELSE CHOOSE i \in hits : \A j \in hits : i <= j

\* Yield, lines 140 and 144: erase one element.
Erase(q, i) == SubSeq(q, 1, i - 1) \o SubSeq(q, i + 1, Len(q))

\* A Yield that demotes a Waiting thread as it does a Running one.
Demoted_WaitingToo(st) == IF st \in {kRunning, kWaiting} THEN kReady ELSE st

\* A Yield that demotes the suspended thread whatever its state.
Demoted_Always(st) == kReady

\* Yield, lines 156-157: the state the suspended thread is left in.
Demoted(st) == IF st = kRunning THEN kReady ELSE st

\* A Yield that puts the suspended thread at the front.
PushBack_Front(q, t) == <<t>> \o q

\* Yield, line 160: push_back.
PushBack(q, t) == Append(q, t)

\* A GarbageCollect that resets the Zombie threads and erases nothing.
Survivors_NoErase(q) == q

\* GarbageCollect, lines 179-186: what stays in the vector.
RECURSIVE Survivors(_)
Survivors(q) ==
    IF q = <<>> THEN <<>>
    ELSE IF state[Head(q)] = kZombie THEN Survivors(Tail(q))
    ELSE <<Head(q)>> \o Survivors(Tail(q))

\* GarbageCollect, line 181: the threads reset() destroys.
Reaped(q) == {q[i] : i \in {j \in 1 .. Len(q) : state[q[j]] = kZombie}}

\* The destructor runs have not reached their cap for the threads of d.
Freeable(d) == \A t \in d : destroyed[t] < MaxFrees

\* A GetThreadCount that returns its two counts the other way round.
CountThreads_Swapped(q) ==
    <<Cardinality({i \in 1 .. Len(q) : state[q[i]] = kZombie}),
      Cardinality({i \in 1 .. Len(q) : state[q[i]] # kZombie})>>

\* GetThreadCount, lines 191-201.
CountThreads(q) ==
    <<Cardinality({i \in 1 .. Len(q) : state[q[i]] # kZombie}),
      Cardinality({i \in 1 .. Len(q) : state[q[i]] = kZombie})>>

\* ------------------------------------------------------------------- Init
Init ==
    /\ next_id = 0
    /\ thread_queue = <<>>
    /\ state = [t \in Tid |-> NoState]
    /\ stack = [t \in Tid |-> NoStack]
    /\ context = [t \in Tid |-> cUnsaved]
    /\ destroyed = [t \in Tid |-> 0]
    /\ current_thread = [k \in Contexts |-> NoThread]
    /\ initial_thread_id = [k \in Contexts |-> NoThread]
    /\ queue_lock = NoCtx
    /\ caller = [k \in Contexts |-> "user"]
    /\ only_ready = [k \in Contexts |-> FALSE]
    /\ next_thread = [k \in Contexts |-> NoThread]
    /\ iter = [k \in Contexts |-> 0]
    /\ old_context = [k \in Contexts |-> NoThread]
    /\ new_context = [k \in Contexts |-> NoThread]
    /\ yield_ret = [k \in Contexts |-> "none"]
    /\ pos = [t \in Tid |-> 0]
    /\ entry = [t \in Tid |-> <<>>]
    /\ spawned = [t \in Tid |-> <<NoFn, NoArg>>]
    /\ hist = [t \in Tid |-> <<>>]
    /\ counter = 0
    /\ count_result = [k \in Contexts |-> NoCount]
    /\ pc = [k \in Contexts |-> "uninit"]

\* ---------------------------------------------------------------- actions
yieldLocals == <<caller, only_ready, next_thread, iter, old_context, new_context>>
userBook == <<pos, hist>>

\* Initialize(), lines 98-103 (Thread::Thread(false), lines 54-62).
Initialize(k, cap) ==
    /\ Alive
    /\ pc[k] = "uninit"
    /\ next_id < cap
    /\ LET id == next_id IN
          /\ next_id' = next_id + 1
          /\ state' = [state EXCEPT ![id] = kWaiting]
          /\ stack' = [stack EXCEPT ![id] = NoStack]
          /\ context' = [context EXCEPT ![id] = cUnsaved]
          /\ initial_thread_id' = [initial_thread_id EXCEPT ![k] = id]
          /\ current_thread' = [current_thread EXCEPT ![k] = id]
    /\ pc' = [pc EXCEPT ![k] = "user"]
    /\ UNCHANGED <<thread_queue, destroyed, queue_lock, yieldLocals,
                   yield_ret, userBook, entry, spawned, counter, count_result>>

\* Spawn(fn, arg), lines 105-127 up to the call of Yield()
\* (Thread::Thread(true), lines 54-62).
Spawn(k, fn, arg, cap, obs) ==
    /\ UserAt(k, Op("spawn", fn, arg, FALSE))
    /\ next_id < cap
    /\ LET id == next_id IN
          /\ next_id' = next_id + 1
          /\ state' = [state EXCEPT ![id] = kWaiting]
          /\ stack' = [stack EXCEPT ![id] = PrimedStack(fn, arg)]
          /\ context' = [context EXCEPT ![id] = cStart]
          /\ spawned' = [spawned EXCEPT ![id] = <<fn, arg>>]
          /\ thread_queue' = InsertFront(thread_queue, id)
    /\ Advance(k, Op("spawn", fn, arg, FALSE), obs)
    /\ pc' = [pc EXCEPT ![k] = "yield"]
    /\ caller' = [caller EXCEPT ![k] = "spawn"]
    /\ only_ready' = [only_ready EXCEPT ![k] = FALSE]
    /\ UNCHANGED <<destroyed, current_thread, initial_thread_id, queue_lock,
                   next_thread, iter, old_context, new_context, entry,
                   counter>>

\* User code calls Yield(only_ready), line 130.
CallYield(k, b, obs) ==
    /\ UserAt(k, Op("yield", NoFn, NoArg, b))
    /\ Advance(k, Op("yield", NoFn, NoArg, b), obs)
    /\ pc' = [pc EXCEPT ![k] = "yield"]
    /\ caller' = [caller EXCEPT ![k] = "user"]
    /\ only_ready' = [only_ready EXCEPT ![k] = b]
    /\ UNCHANGED <<next_id, thread_queue, state, stack, context, destroyed,
                   current_thread, initial_thread_id, queue_lock, next_thread, iter,
                   old_context, new_context, entry, spawned,
                   counter>>

\* Wait(), lines 171-173 up to the first call of Yield(true).
Wait(k, obs) ==
    /\ UserAt(k, Op("wait", NoFn, NoArg, FALSE))
    /\ Advance(k, Op("wait", NoFn, NoArg, FALSE), obs)
    /\ state' = [state EXCEPT ![current_thread[k]] = kWaiting]
    /\ pc' = [pc EXCEPT ![k] = "yield"]
    /\ caller' = [caller EXCEPT ![k] = "wait"]
    /\ only_ready' = [only_ready EXCEPT ![k] = TRUE]
    /\ UNCHANGED <<next_id, thread_queue, stack, context, destroyed,
                   current_thread, initial_thread_id, queue_lock, next_thread, iter,
                   old_context, new_context, entry, spawned,
                   counter>>

\* User code calls GarbageCollect(), line 178.
CallGarbageCollect(k, obs) ==
    /\ UserAt(k, Op("gc", NoFn, NoArg, FALSE))
    /\ Advance(k, Op("gc", NoFn, NoArg, FALSE), obs)
    /\ pc' = [pc EXCEPT ![k] = "gc"]
    /\ UNCHANGED <<next_id, thread_queue, state, stack, context, destroyed,
                   current_thread, initial_thread_id, queue_lock, yieldLocals, entry, spawned, counter>>

\* GarbageCollect(), lines 178-187, called by user code.
GarbageCollect(k) ==
    /\ Alive
    /\ pc[k] = "gc"
    /\ Freeable(Reaped(thread_queue))
    /\ thread_queue' = Survivors(thread_queue)
    /\ destroyed' = [t \in Tid |->
                        IF t \in Reaped(thread_queue)
                        THEN destroyed[t] + 1 ELSE destroyed[t]]
    /\ pc' = [pc EXCEPT ![k] = "user"]
    /\ UNCHANGED <<next_id, state, stack, context, current_thread,
                   initial_thread_id, queue_lock, yieldLocals, yield_ret,
                   userBook, entry, spawned, counter, count_result>>

\* GetThreadCount(), line 193: the lock_guard takes queue_lock.
GetThreadCountLock(k, obs) ==
    /\ UserAt(k, Op("count", NoFn, NoArg, FALSE))
    /\ queue_lock = NoCtx
    /\ Advance(k, Op("count", NoFn, NoArg, FALSE), obs)
    /\ queue_lock' = k
    /\ pc' = [pc EXCEPT ![k] = "count"]
    /\ UNCHANGED <<next_id, thread_queue, state, stack, context, destroyed,
                   current_thread, initial_thread_id, yieldLocals,
                   entry, spawned, counter>>

\* GetThreadCount(), lines 194-202: the scan, the return, the unlock.
GetThreadCount(k) ==
    /\ Alive
    /\ pc[k] = "count"
    /\ count_result' = [count_result EXCEPT ![k] = CountThreads(thread_queue)]
    /\ queue_lock' = NoCtx
    /\ pc' = [pc EXCEPT ![k] = "user"]
    /\ UNCHANGED <<next_id, thread_queue, state, stack, context, destroyed,
                   current_thread, initial_thread_id, yieldLocals, yield_ret,
                   userBook, entry, spawned, counter>>

\* The body of f_inc: the shared counter goes up by one.
Increment(k, obs) ==
    /\ UserAt(k, Op("inc", NoFn, NoArg, FALSE))
    /\ ~IsInitial(current_thread[k])
    /\ Advance(k, Op("inc", NoFn, NoArg, FALSE), obs)
    /\ counter' = counter + 1
    /\ UNCHANGED <<next_id, thread_queue, state, stack, context, destroyed,
                   current_thread, initial_thread_id, queue_lock, pc,
                   yieldLocals, entry, spawned>>

\* ThreadEntry, lines 205-209: fn(arg) has returned; the thread marks itself
\* kZombie and calls Yield().
ThreadExit(k) ==
    /\ Alive
    /\ pc[k] = "user"
    /\ ~IsInitial(current_thread[k])
    /\ pos[current_thread[k]] = Len(BodyOf(current_thread[k]))
    /\ state' = [state EXCEPT ![current_thread[k]] = kZombie]
    /\ pc' = [pc EXCEPT ![k] = "yield"]
    /\ caller' = [caller EXCEPT ![k] = "entry"]
    /\ only_ready' = [only_ready EXCEPT ![k] = FALSE]
    /\ yield_ret' = [yield_ret EXCEPT ![k] = "none"]
    /\ count_result' = [count_result EXCEPT ![k] = NoCount]
    /\ UNCHANGED <<next_id, thread_queue, stack, context, destroyed,
                   current_thread, initial_thread_id, queue_lock, next_thread, iter,
                   old_context, new_context, userBook, entry, spawned,
                   counter>>

\* The erase of line 140/144 through an iterator another context's erase has
\* invalidated: it removes the element it now lands on (the one at the same
\* index, else the last one), and with it the thread that element owns.
StaleErased(q, i) == IF q = <<>> THEN 0 ELSE IF i <= Len(q) THEN i ELSE Len(q)

\* Yield(only_ready), lines 136-150: scan the vector front to back, take the
\* first eligible thread out of it, or return false.
YieldSelect(k) ==
    /\ Alive
    /\ pc[k] = "yield"
    /\ LET i == FirstEligible(thread_queue, only_ready[k]) IN
       IF i # 0
       THEN /\ next_thread' = [next_thread EXCEPT ![k] = thread_queue[i]]
            /\ iter' = [iter EXCEPT ![k] = i]
            /\ thread_queue' = Erase(thread_queue, i)
            /\ pc' = [pc EXCEPT ![k] = "yield_switch"]
            /\ UNCHANGED <<yield_ret, caller>>
       ELSE /\ yield_ret' = [yield_ret EXCEPT ![k] = "false"]
            /\ pc' = [pc EXCEPT ![k] =
                        IF caller[k] = "entry" THEN "assert_fail" ELSE "user"]
            /\ caller' = [caller EXCEPT ![k] = "user"]
            /\ UNCHANGED <<next_thread, iter, thread_queue>>
    /\ only_ready' = [only_ready EXCEPT ![k] = FALSE]
    /\ UNCHANGED <<next_id, state, stack, context, destroyed, current_thread,
                   initial_thread_id, queue_lock, old_context, new_context,
                   userBook, entry, spawned, counter, count_result>>

\* Yield, lines 137-147, racing with the scan of another context j: no lock
\* is held, so while j is between its erase and line 153 the scan of k may
\* have read the element j took before j emptied it, if the scan got that
\* far.  Then the program crashes, or both contexts hold the same thread and
\* the erase of k goes through the iterator j's erase invalidated.
YieldSelectRace(k) ==
    /\ Alive
    /\ pc[k] = "yield"
    /\ \E j \in Contexts \ {k} :
          /\ pc[j] = "yield_switch"
          /\ Eligible(state[next_thread[j]], only_ready[k])
          /\ \A n \in 1 .. Len(thread_queue) :
                n < iter[j] => ~Eligible(state[thread_queue[n]], only_ready[k])
          /\ \/ /\ pc' = [pc EXCEPT ![k] = "crashed"]
                /\ UNCHANGED <<next_thread, iter, thread_queue, destroyed>>
             \/ /\ LET e == StaleErased(thread_queue, iter[j]) IN
                   /\ e # 0 => Freeable({thread_queue[e]})
                   /\ thread_queue' =
                         IF e = 0 THEN thread_queue ELSE Erase(thread_queue, e)
                   /\ destroyed' =
                         IF e = 0 THEN destroyed
                         ELSE [destroyed EXCEPT ![thread_queue[e]] = @ + 1]
                /\ next_thread' = [next_thread EXCEPT ![k] = next_thread[j]]
                /\ iter' = [iter EXCEPT ![k] = iter[j]]
                /\ pc' = [pc EXCEPT ![k] = "yield_switch"]
    /\ only_ready' = [only_ready EXCEPT ![k] = FALSE]
    /\ UNCHANGED <<next_id, state, stack, context, current_thread,
                   initial_thread_id, queue_lock, caller, old_context,
                   new_context, yield_ret, userBook, entry, spawned, counter,
                   count_result>>

\* Yield, lines 153-161: demote the running thread, promote the chosen one,
\* push the suspended thread to the back, install the chosen one as current.
YieldEnqueue(k) ==
    /\ Alive
    /\ pc[k] = "yield_switch"
    /\ LET cur == current_thread[k]
           nxt == next_thread[k] IN
          /\ old_context' = [old_context EXCEPT ![k] = cur]
          /\ new_context' = [new_context EXCEPT ![k] = nxt]
          /\ state' = [state EXCEPT ![cur] = Demoted(state[cur]),
                                    ![nxt] = kRunning]
          /\ thread_queue' = PushBack(thread_queue, cur)
          /\ current_thread' = [current_thread EXCEPT ![k] = nxt]
          /\ next_thread' = [next_thread EXCEPT ![k] = NoThread]
          /\ iter' = [iter EXCEPT ![k] = 0]
    /\ pc' = [pc EXCEPT ![k] = "context_switch"]
    /\ UNCHANGED <<next_id, stack, context, destroyed, initial_thread_id,
                   queue_lock, caller, only_ready, yield_ret, userBook, entry,
                   spawned, counter, count_result>>

\* start_thread (assembly): pops fn and arg off the primed stack and calls
\* ThreadEntry(fn, arg), line 204.
StartThread(t) == <<stack[t].fn, stack[t].arg>>

\* context_switch (assembly), called at line 163: saves the registers of the
\* running code into *old_context and resumes what *new_context holds.  A
\* context that was never saved holds no stack pointer: resuming it crashes.
\* Saving into a thread another context has already destroyed is a write to
\* freed memory: it goes unnoticed or it crashes.
ContextSwitch(k) ==
    /\ Alive
    /\ pc[k] = "context_switch"
    /\ LET old == old_context[k]
           new == new_context[k]
           to == context[new] IN
          /\ context' = [context EXCEPT ![old] = caller[k]]
          /\ \/ /\ to = cStart
                /\ entry' = [entry EXCEPT ![new] = Append(@, StartThread(new))]
                /\ pos' = [pos EXCEPT ![new] = 0]
                /\ pc' = [pc EXCEPT ![k] = "user"]
                /\ caller' = [caller EXCEPT ![k] = "user"]
             \/ /\ to \in Callers
                /\ caller' = [caller EXCEPT ![k] = to]
                /\ pc' = [pc EXCEPT ![k] = "yield_gc"]
                /\ UNCHANGED <<entry, pos>>
             \/ /\ to = cUnsaved \/ destroyed[old] > 0
                /\ pc' = [pc EXCEPT ![k] = "crashed"]
                /\ caller' = [caller EXCEPT ![k] = "user"]
                /\ UNCHANGED <<entry, pos>>
    /\ old_context' = [old_context EXCEPT ![k] = NoThread]
    /\ new_context' = [new_context EXCEPT ![k] = NoThread]
    /\ UNCHANGED <<next_id, thread_queue, state, stack, destroyed,
                   current_thread, initial_thread_id, queue_lock, only_ready,
                   next_thread, iter, yield_ret, hist, spawned, counter,
                   count_result>>

\* Yield, lines 165-168, where a resumed thread continues: GarbageCollect(),
\* return true.  Back in Wait (line 174) the thread marks itself kWaiting and
\* calls Yield(true) again; back in ThreadEntry (line 211) the ASSERT fails.
YieldReturn(k) ==
    /\ Alive
    /\ pc[k] = "yield_gc"
    /\ Freeable(Reaped(thread_queue))
    /\ thread_queue' = Survivors(thread_queue)
    /\ destroyed' = [t \in Tid |->
                        IF t \in Reaped(thread_queue)
                        THEN destroyed[t] + 1 ELSE destroyed[t]]
    /\ IF caller[k] = "wait"
       THEN /\ state' = [state EXCEPT ![current_thread[k]] = kWaiting]
            /\ only_ready' = [only_ready EXCEPT ![k] = TRUE]
            /\ pc' = [pc EXCEPT ![k] = "yield"]
            /\ UNCHANGED <<caller, yield_ret>>
       ELSE /\ pc' = [pc EXCEPT ![k] =
                        IF caller[k] = "entry" THEN "assert_fail" ELSE "user"]
            /\ caller' = [caller EXCEPT ![k] = "user"]
            /\ yield_ret' = [yield_ret EXCEPT ![k] = "true"]
            /\ UNCHANGED <<state, only_ready>>
    /\ UNCHANGED <<next_id, stack, context, current_thread, initial_thread_id,
                   queue_lock, next_thread, iter, old_context, new_context,
                   userBook, entry, spawned, counter, count_result>>

\* ------------------------------------------------------------------- Next
\* One step of execution context k, in a program that spawns the functions
\* fns with the arguments args and creates at most cap threads; obs: the
\* history of the initial thread's operations is kept.
Step(k, fns, args, cap, obs) ==
    \/ Initialize(k, cap)
    \/ \E fn \in fns, arg \in args : Spawn(k, fn, arg, cap, obs)
    \/ \E b \in BOOLEAN : CallYield(k, b, obs)
    \/ Wait(k, obs)
    \/ CallGarbageCollect(k, obs)
    \/ GarbageCollect(k)
    \/ GetThreadCountLock(k, obs)
    \/ GetThreadCount(k)
    \/ Increment(k, obs)
    \/ ThreadExit(k)
    \/ YieldSelect(k)
    \/ YieldEnqueue(k)
    \/ ContextSwitch(k)
    \/ YieldReturn(k)

Next == \E k \in Contexts : Step(k, FnsMulti, ArgsMulti, MaxThreads, FALSE)

NextSingle == Step("A", Fns, Args, MaxThreadsSingle, TRUE)

\* Two execution contexts, every statement group running to its end before
\* the other context's next one (the scans of the two never overlap).
Spec == Init /\ [][Next]_vars

\* One execution context: kernel thread B never uses the runtime.
SpecSingle == Init /\ [][NextSingle]_vars

\* Two execution contexts whose unlocked scans race.  The program calls
\* Initialize, Spawn(f_inc, a) and Yield only.
StepRace(k) ==
    \/ Initialize(k, MaxThreads)
    \/ Spawn(k, "f_inc", "a1", MaxThreads, FALSE)
    \/ \E b \in BOOLEAN : CallYield(k, b, FALSE)
    \/ Increment(k, FALSE)
    \/ ThreadExit(k)
    \/ YieldSelect(k)
    \/ YieldSelectRace(k)
    \/ YieldEnqueue(k)
    \/ ContextSwitch(k)
    \/ YieldReturn(k)

NextRace == \E k \in Contexts : StepRace(k)

SpecRace == Init /\ [][NextRace]_vars

\* One execution context that keeps executing as long as it has a step to
\* take; the spawned functions never spawn, so that each of them terminates
\* whatever the cap on the number of threads.
NextFair == Step("A", FnsMulti, ArgsMulti, MaxThreadsSingle, FALSE)

SpecSingleFair == Init /\ [][NextFair]_vars /\ WF_vars(NextFair)

\* ----------------------------------------------------------------- claims
InPool(t) == \E i \in 1 .. Len(thread_queue) : thread_queue[i] = t
WasSpawned(t) == spawned[t] # <<NoFn, NoArg>>
\* The original thread of context k is in user code, between two operations.
OriginalAtUser(k) ==
    /\ pc[k] = "user"
    /\ current_thread[k] # NoThread
    /\ current_thread[k] = initial_thread_id[k]

\* C1: with one execution context, whenever the original thread is back in
\* user code, every function spawned so far has been invoked, exactly once
\* (never more in any state), with the function and the argument given to its
\* Spawn call.
C1_SpawnedInvokedOnceWithArg ==
    \A t \in Tid :
        WasSpawned(t) =>
            /\ Len(entry[t]) <= 1
            /\ \A i \in 1 .. Len(entry[t]) : entry[t][i] = spawned[t]
            /\ OriginalAtUser("A") => Len(entry[t]) = 1

C1_Witness ==
    /\ OriginalAtUser("A")
    /\ yield_ret["A"] = "false"
    /\ \E t, u \in Tid :
          /\ spawned[t][2] = "a1" /\ entry[t] = <<spawned[t]>>
          /\ spawned[u][2] = "a2" /\ entry[u] = <<spawned[u]>>

C8_FailedYieldChangesNothing ==
    [][\A k \in Contexts :
          ( /\ pc[k] = "yield"
            /\ pc'[k] # "yield"
            /\ \A i \in 1 .. Len(thread_queue) :
                  /\ state[thread_queue[i]] # kReady
                  /\ only_ready[k] \/ state[thread_queue[i]] # kWaiting )
          => /\ yield_ret'[k] = "false"
             /\ pc'[k] \in {"user", "assert_fail"}
             /\ UNCHANGED <<thread_queue, state, context, current_thread,
                            destroyed>>
      ]_vars

\* A Yield(true) has returned false to the original thread while the pool
\* holds a Waiting thread.
C8_Witness ==
    /\ OriginalAtUser("A")
    /\ yield_ret["A"] = "false"
    /\ \E i \in 1 .. Len(thread_queue) : state[thread_queue[i]] = kWaiting

\* C9: a GarbageCollect pass removes from the pool exactly the Zombie threads,
\* destroys each of them once, and leaves the other pooled threads in their
\* order and state and the current threads as they were; so a pass over a
\* pool without Zombie threads (a second pass) changes nothing.
C9_GarbageCollectReapsZombiesOnly ==
    [][\A k \in Contexts :
          (pc[k] \in {"gc", "yield_gc"} /\ pc'[k] # pc[k]) =>
             /\ thread_queue' =
                   SelectSeq(thread_queue, LAMBDA t : state[t] # kZombie)
             /\ \A t \in Tid :
                   /\ destroyed'[t] =
                         IF InPool(t) /\ state[t] = kZombie
                         THEN destroyed[t] + 1 ELSE destroyed[t]
                   /\ destroyed'[t] <= 1
                   /\ InPool(t) /\ state[t] # kZombie => state'[t] = state[t]
             /\ current_thread' = current_thread
             /\ (\A i \in 1 .. Len(thread_queue) :
                    state[thread_queue[i]] # kZombie)
                   => UNCHANGED <<thread_queue, destroyed>>
      ]_vars

\* A second pass: user code calls GarbageCollect after a pass has destroyed
\* a Zombie thread and left another thread in the pool.
C9_Witness ==
    /\ pc["A"] = "gc"
    /\ \E t \in Tid : destroyed[t] = 1
    /\ thread_queue # <<>>

\* The scenario of C10 has been followed by the original thread of context k.
InScenario(k) ==
    /\ OriginalAtUser(k)
    /\ CounterScenario(hist[current_thread[k]])
ScenarioCounted(k) ==
    /\ InScenario(k)
    /\ hist[current_thread[k]][Len(hist[current_thread[k]])] = "count"
    /\ count_result[k] # NoCount

\* C10 as stated: after Initialize, Spawn(f_inc, a), Yield(true) repeatedly,
\* the counter is 1 and GetThreadCount reports a zombie count of 1.
C10_AsStated ==
    /\ InScenario("A") => counter = 1
    /\ ScenarioCounted("A") => count_result["A"][2] = 1

\* C10 as amended: the counter is 1 from the return of Spawn on (so after at
\* most two Yield(true) calls), and GetThreadCount reports a zombie count of
\* 0: the finished thread was reclaimed when the original thread resumed.
C10_CounterOneZombieZero ==
    /\ InScenario("A") => counter = 1
    /\ ScenarioCounted("A") => count_result["A"][2] = 0

C10_Witness ==
    /\ ScenarioCounted("A")
    /\ hist[current_thread["A"]] =
          <<"spawn_f_inc", "yield_true", "yield_true", "count">>

\* C3 as stated: the initial thread of one execution context is never the
\* current thread of another.
C3_InitialThreadStaysHome ==
    \A k \in Contexts : \A j \in Contexts \ {k} :
        current_thread[k] # NoThread =>
            current_thread[k] # initial_thread_id[j]

\* C4 as stated: an execution context changes the pool only while it holds
\* queue_lock.
C4_PoolMutationsHoldLock ==
    [][\A k \in Contexts :
          (pc'[k] # pc[k] /\ thread_queue' # thread_queue) => queue_lock = k
      ]_vars

\* C5 as stated: the ASSERT(false) after ThreadEntry's Yield is never
\* reached.
C5_AssertUnreachable ==
    \A k \in Contexts : pc[k] # "assert_fail"

\* C6 as stated: a thread whose function has returned is never again running
\* user code nor Ready, and once its terminating Yield is over it is in the
\* pool as a Zombie (counted by GetThreadCount) until a GarbageCollect pass
\* destroys it, after which it is in the pool no more.
C6_ReturnedThreadBecomesPooledZombie ==
    \A t \in Tid :
        /\ (state[t] = kZombie /\ destroyed[t] = 0) =>
              \/ InPool(t)
              \/ \E k \in Contexts :
                    /\ current_thread[k] = t
                    /\ pc[k] \in {"yield", "yield_switch"}
        /\ destroyed[t] > 0 =>
              /\ ~InPool(t)
              /\ \A k \in Contexts : current_thread[k] # t

\* The state changes C7 lists.
ListedChanges ==
    {<<kWaiting, kRunning>>, <<kReady, kRunning>>, <<kRunning, kReady>>,
     <<kRunning, kWaiting>>, <<kRunning, kZombie>>}

\* C7 as stated: a live thread's state changes only along the listed
\* changes.
C7_AsStated ==
    [][\A t \in Tid :
          (state[t] # NoState /\ state'[t] # state[t]) =>
              <<state[t], state'[t]>> \in ListedChanges
      ]_vars

\* C7 as amended: a live thread's state changes only along the listed changes
\* or from Waiting to Zombie (a function that returns after Wait, which leaves
\* its thread Waiting); a Zombie thread's state never changes.
C7_ListedChangesOrWaitingToZombie ==
    [][\A t \in Tid :
          (state[t] # NoState /\ state'[t] # state[t]) =>
              <<state[t], state'[t]>> \in
                  ListedChanges \cup {<<kWaiting, kZombie>>}
      ]_vars

\* A thread whose function called Wait has returned and is a Zombie.
C7_Witness ==
    \E t \in Tid :
        /\ entry[t] = <<spawned[t]>>
        /\ spawned[t][1] = "f_wait"
        /\ pos[t] = 1
        /\ state[t] = kZombie

\* A spawned thread whose function has been invoked once and has returned.
Completed(t) ==
    /\ entry[t] = <<spawned[t]>>
    /\ pos[t] = Len(Body(spawned[t][1], spawned[t][2]))
    /\ state[t] = kZombie

\* The original thread of context k has followed the second scenario up to
\* the Yield(false) that returned false.
LoopEnded(k) ==
    /\ OriginalAtUser(k)
    /\ LoopScenario(hist[current_thread[k]])
    /\ hist[current_thread[k]][Len(hist[current_thread[k]])] = "yield_false"
    /\ yield_ret[k] = "false"

\* ... and then up to the return of GetThreadCount.
LoopCounted(k) ==
    /\ OriginalAtUser(k)
    /\ LoopScenario(hist[current_thread[k]])
    /\ hist[current_thread[k]][Len(hist[current_thread[k]])] = "count"
    /\ count_result[k] # NoCount

\* When the loop of the second scenario has ended, exactly three threads
\* were spawned and each of their functions has run to completion once.
LoopVisitedAllOnce(k) ==
    (LoopEnded(k) \/ LoopCounted(k)) =>
        /\ Cardinality({t \in Tid : WasSpawned(t)}) = 3
        /\ \A t \in Tid : WasSpawned(t) => Completed(t)

\* C11 as stated: after Initialize, three Spawn(f_yield, a) and a loop of
\* Yield(false) until it returns false, each function has run to completion
\* exactly once, and GetThreadCount reports runnable = 1 and zombie = 3.
C11_AsStated ==
    /\ LoopVisitedAllOnce("A")
    /\ LoopCounted("A") => count_result["A"] = <<1, 3>>

\* C11 as amended: each function has run to completion exactly once when
\* the loop ends, and GetThreadCount reports runnable = 0 and zombie = 0: the
\* original thread is current, not pooled, and every finished thread was
\* reclaimed when the original thread resumed.
C11_LoopVisitsAllCountsNone ==
    /\ LoopVisitedAllOnce("A")
    /\ LoopCounted("A") => count_result["A"] = <<0, 0>>

C11_Witness ==
    /\ LoopCounted("A")
    /\ hist[current_thread["A"]] =
          <<"spawn_f_yield", "spawn_f_yield", "spawn_f_yield",
            "yield_false", "yield_false", "count">>
    /\ \A t \in Tid : WasSpawned(t) => destroyed[t] = 1

\* Context k is inside Wait, at one of its Yield(true) calls or coming back
\* from one.
InsideWait(k) ==
    /\ caller[k] = "wait"
    /\ pc[k] \in {"yield", "yield_switch", "context_switch", "yield_gc"}

\* Thread t is parked in the pool by the Yield(true) of a Wait call.
ParkedInWait(t) ==
    /\ InPool(t)
    /\ \/ \E k \in Contexts :
             old_context[k] = t /\ pc[k] = "context_switch" /\ caller[k] = "wait"
       \/ /\ context[t] = "wait"
          /\ \A k \in Contexts : old_context[k] # t /\ current_thread[k] # t

\* C12, the return: with one execution context that keeps running and
\* spawned functions that terminate, a Wait the original thread calls returns.
WaitReturns ==
    (InsideWait("A") /\ current_thread["A"] = initial_thread_id["A"]
        /\ pc["A"] = "yield")
      ~> OriginalAtUser("A")

\* C12, the moment of the return: the caller is still the current thread of
\* its context, and no pooled thread is Ready.
WaitReturnsDrained ==
    [][\A k \in Contexts :
          (InsideWait(k) /\ pc'[k] = "user") =>
             /\ pc[k] = "yield"
             /\ yield_ret'[k] = "false"
             /\ current_thread'[k] = current_thread[k]
             /\ \A i \in 1 .. Len(thread_queue') :
                   state'[thread_queue'[i]] # kReady
      ]_vars

\* C12, the parked caller: it is Waiting as long as it is parked, and the
\* scan that takes it out of the pool is one of a Yield(only_ready = false).
WaiterParkedWaiting ==
    [][\A t \in Tid :
          ParkedInWait(t) =>
             /\ state[t] = kWaiting
             /\ \A k \in Contexts : next_thread'[k] = t => ~only_ready[k]
      ]_vars

Live(t) == state[t] # NoState /\ destroyed[t] = 0

\* In how many places thread t is held: the elements of the pool and the
\* current_thread of the contexts.
Owners(t) ==
    Cardinality({i \in 1 .. Len(thread_queue) : thread_queue[i] = t})
    + Cardinality({k \in Contexts : current_thread[k] = t})

\* C13 as stated: every live thread is in the pool once or the current
\* thread of one context, never both, never twice; it is in neither place
\* only inside the Yield that has taken it out of the pool and not yet
\* installed it.
C13_ExclusiveOwnership ==
    \A t \in Tid :
        Live(t) =>
            /\ Owners(t) <= 1
            /\ Owners(t) = 0 =>
                  \E k \in Contexts :
                      pc[k] = "yield_switch" /\ next_thread[k] = t

\* Thread t is ahead of thread u in the vector q.
Ahead(q, t, u) ==
    \E i, j \in 1 .. Len(q) : i < j /\ q[i] = t /\ q[j] = u

\* C14: the thread a successful Yield takes is the eligible thread nearest
\* the front (no thread ahead of it is Ready, nor Waiting when only_ready is
\* false), the others stay in the pool in their order; and no step changes
\* the order of two threads that stay pooled, so of two Ready threads the
\* one re-queued earlier is taken first.
C14_FirstMatchWins ==
    [][/\ \A k \in Contexts :
             (pc[k] = "yield" /\ pc'[k] = "yield_switch") =>
                \E i \in 1 .. Len(thread_queue) :
                   /\ thread_queue[i] = next_thread'[k]
                   /\ thread_queue' = SubSeq(thread_queue, 1, i - 1)
                                         \o SubSeq(thread_queue, i + 1, Len(thread_queue))
                   /\ \A n \in 1 .. (i - 1) :
                         /\ state[thread_queue[n]] # kReady
                         /\ only_ready[k] \/ state[thread_queue[n]] # kWaiting
       /\ \A t, u \in Tid :
             (Ahead(thread_queue, t, u) /\ InPool(t)' /\ InPool(u)')
                => Ahead(thread_queue', t, u)
      ]_vars

\* A Yield has taken the Ready thread at the front of the pool, ahead of
\* another Ready thread that was re-queued after it.
C14_Witness ==
    /\ pc["A"] = "yield_switch"
    /\ iter["A"] = 1
    /\ state[next_thread["A"]] = kReady
    /\ Len(thread_queue) >= 1
    /\ state[thread_queue[1]] = kReady

\* C15: when a Yield that found a thread demotes, re-queues and installs
\* (between the scan and the context switch), the selected thread becomes
\* the current thread of the calling context, Running; the thread that was
\* current becomes the last element of the pool, Ready if it was Running and
\* otherwise Waiting or Zombie as before; the threads already pooled keep
\* their order and every other thread keeps its state.  The scan before it
\* changes no state.
C15_SuccessfulYieldEffect ==
    [][\A k \in Contexts :
          /\ (pc[k] = "yield" /\ pc'[k] = "yield_switch") => state' = state
          /\ (pc[k] = "yield_switch" /\ pc'[k] = "context_switch") =>
                LET cur == current_thread[k]
                    nxt == next_thread[k] IN
                   /\ current_thread'[k] = nxt
                   /\ state'[nxt] = kRunning
                   /\ thread_queue' = Append(thread_queue, cur)
                   /\ state[cur] = kRunning => state'[cur] = kReady
                   /\ state[cur] # kRunning =>
                         /\ state'[cur] = state[cur]
                         /\ state[cur] \in {kWaiting, kZombie}
                   /\ \A t \in Tid \ {cur, nxt} : state'[t] = state[t]
      ]_vars

\* A Running thread has yielded: it is Ready and last in a pool that holds
\* another thread ahead of it.
C15_Witness ==
    /\ pc["A"] = "context_switch"
    /\ Len(thread_queue) >= 2
    /\ thread_queue[Len(thread_queue)] = old_context["A"]
    /\ state[old_context["A"]] = kReady
    /\ state[current_thread["A"]] = kRunning

\* The thread the latest Spawn created.
Newest == next_id - 1

\* Spawn's Yield takes the thread this Spawn created, from the front.
SpawnYieldsToNewThread ==
    [][\A k \in Contexts :
          (pc[k] = "yield" /\ caller[k] = "spawn" /\ pc'[k] # pc[k]) =>
             /\ thread_queue[1] = Newest
             /\ state[Newest] = kWaiting /\ ~only_ready[k]
             /\ pc'[k] = "yield_switch"
             /\ next_thread'[k] = Newest
             /\ thread_queue' = Tail(thread_queue)
      ]_vars

\* While user code is executing, every pooled thread has been started.
NoUnstartedThreadPooled ==
    [](\A k \in Contexts :
          pc[k] = "user" =>
             \A t \in Tid : (InPool(t) /\ WasSpawned(t)) => entry[t] # <<>>)

\* C16: with one execution context, the Yield inside Spawn always takes the
\* thread this Spawn created (it is at the front, Waiting, and only_ready is
\* false), so its function has started when Spawn returns, and no thread
\* that never ran is in the pool while user code is executing.
C16_SpawnRunsNewThreadFirst ==
    SpawnYieldsToNewThread /\ NoUnstartedThreadPooled

\* The original thread is back in user code; the thread the latest Spawn
\* created has started and is parked Ready, with another thread pooled.
C16_Witness ==
    /\ OriginalAtUser("A")
    /\ yield_ret["A"] = "true"
    /\ InPool(Newest)
    /\ entry[Newest] = <<spawned[Newest]>>
    /\ state[Newest] = kReady
    /\ Len(thread_queue) >= 2

\* C17: no pooled thread is Running (each is Waiting, Ready or Zombie), and
\* a Running thread is the current thread of some execution context.
C17_RunningIsCurrent ==
    \A t \in Tid :
        /\ InPool(t) => state[t] \in {kWaiting, kReady, kZombie}
        /\ state[t] = kRunning => \E k \in Contexts : current_thread[k] = t

\* C18: with one execution context, while user code is executing (between
\* operations, or inside a GarbageCollect or GetThreadCount it called) the
\* pool holds no Zombie thread, and what GetThreadCount returned to it has a
\* zombie count of 0.
C18_NoZombieWhileUserRuns ==
    /\ pc["A"] \in {"user", "gc", "count"} =>
          \A i \in 1 .. Len(thread_queue) : state[thread_queue[i]] # kZombie
    /\ count_result["A"] # NoCount => count_result["A"][2] = 0

\* GetThreadCount has returned to user code after a finished thread was
\* reclaimed, with two threads still pooled.
C18_Witness ==
    /\ pc["A"] = "user"
    /\ count_result["A"] # NoCount
    /\ count_result["A"][1] = 2
    /\ \E t \in Tid : state[t] = kZombie /\ destroyed[t] = 1

\* Context k is executing on the stack of thread t: t is its current
\* thread, or k has installed another thread (line 161) and has not yet
\* switched away from t (line 163).
OnStackOf(k, t) ==
    IF pc[k] = "context_switch" THEN old_context[k] = t
    ELSE current_thread[k] = t /\ pc[k] # "uninit"

\* C19 as stated: no destroyed thread is one an execution context is still
\* executing on; a Zombie pushed into the pool is not reclaimed before the
\* context switch that leaves its stack.
C19_NoReclaimBeforeSwitch ==
    \A k \in Contexts : \A t \in Tid :
        (Alive /\ OnStackOf(k, t)) => destroyed[t] = 0

\* C20 as stated: no thread is executed on by two execution contexts at
\* once; a thread pushed to the back of the pool is not resumed by another
\* context before the suspending context's switch has left it.
C20_OneContextPerThread ==
    Alive =>
        \A t \in Tid : \A k \in Contexts : \A j \in Contexts \ {k} :
            ~(OnStackOf(k, t) /\ OnStackOf(j, t))

====
